---------------------------- MODULE Spec2Model ----------------------------
(***************************************************************************)
(* Model of the Z-Anatomy scripts of MediVerse:                            *)
(*   scripts/extract-z-anatomy-ontology.py   (ontology extractor)          *)
(*   scripts/export-z-anatomy-main-systems.py (GLB exporter)               *)
(*                                                                         *)
(* A Python str is modelled as a sequence of one-character strings, so     *)
(* that lower(), substring search, re.sub and strip are computed character *)
(* by character as the interpreter computes them.                          *)
(***************************************************************************)
EXTENDS Integers, Sequences, FiniteSets, TLC

VARIABLES
    \* ---- extract_ontology
    scene,            \* bpy.data.collections as seen through main_collections
    pc,               \* position of the run
    ci,               \* index into main_collections of the for loop
    oi,               \* index into collection.objects of the inner for loop
    system,           \* system of the collection being processed
    ontology,         \* the list of part entries
    origin,           \* ghost: origin[i] is the collection ontology[i] was taken from
    processed_names,  \* the set of object names already recorded
    log,              \* lines printed so far
    jsonFile,         \* ../data/z-anatomy-ontology.json
    tsFile,           \* ../data/z-anatomy-ontology.ts
    \* ---- main() of the exporter
    xscene,           \* bpy.data.collections as seen through systems
    xpc,              \* position of the run
    xphase,           \* 1, 2, 3: the HIGH, MEDIUM, LOW loop; 4: specific_parts
    xi,               \* index of the loop of the phase
    applied,          \* per mesh name: the decimation ratios applied to its data
    selected,         \* names of the selected objects
    files,            \* the GLB files written
    lastCall,         \* ghost: the last call of export_collection_to_glb
    attempts,         \* ghost: the calls of export_collection_to_glb so far
    xfaults,          \* ghost: the number of faults the host has raised
    \* ---- normalize_part_id applied once and twice to one input name
    nName, nOnce, nTwice, npc,
    \* ---- determine_system applied to one (collection_name, object_name)
    dCollection, dObject, dResult, dpc

evars == <<scene, pc, ci, oi, system, ontology, origin, processed_names, log,
           jsonFile, tsFile>>
xvars == <<xscene, xpc, xphase, xi, applied, selected, files, lastCall, attempts,
           xfaults>>
nvars == <<nName, nOnce, nTwice, npc>>
dvars == <<dCollection, dObject, dResult, dpc>>
vars == <<evars, xvars, nvars, dvars>>

(***************************************************************************)
(* Characters and the str methods the scripts use                          *)
(***************************************************************************)
Range(s) == {s[i] : i \in 1..Len(s)}

UpperCase == <<"A","B","C","D","E","F","G","H","I","J","K","L","M",
               "N","O","P","Q","R","S","T","U","V","W","X","Y","Z">>
LowerCase == <<"a","b","c","d","e","f","g","h","i","j","k","l","m",
               "n","o","p","q","r","s","t","u","v","w","x","y","z">>
Digits == {"0","1","2","3","4","5","6","7","8","9"}

\* str.lower() on one character
LowerTable ==
    [c \in Range(UpperCase) |-> LowerCase[CHOOSE i \in 1..26 : UpperCase[i] = c]]

LowerChar(c) == IF c \in DOMAIN LowerTable THEN LowerTable[c] ELSE c

\* str.lower()
RECURSIVE lower(_)
lower(s) == IF s = <<>> THEN <<>> ELSE <<LowerChar(Head(s))>> \o lower(Tail(s))

\* regex class \w
WordChars == Range(UpperCase) \cup Range(LowerCase) \cup Digits \cup {"_"}
IsWordChar(c) == c \in WordChars
\* regex class \s
IsSpaceChar(c) == c \in {" ", "\t", "\n", "\r"}
\* regex class [-\s]
IsSepChar(c) == c = "-" \/ IsSpaceChar(c)
\* regex class [^\w\s-] negated: the characters re.sub(r'[^\w\s-]', '') keeps
IsKeptChar(c) == IsWordChar(c) \/ IsSpaceChar(c) \/ c = "-"

\* kw in text (substring test)
Contains(kw, text) ==
    \E i \in 0..(Len(text) - Len(kw)) :
        \A j \in 1..Len(kw) : text[i + j] = kw[j]

StartsWith(s, p) ==
    /\ Len(p) <= Len(s)
    /\ \A j \in 1..Len(p) : s[j] = p[j]

Drop(s, n) == SubSeq(s, n + 1, Len(s))

\* str.replace(old, new): leftmost non-overlapping occurrences, old non-empty
RECURSIVE Replace(_, _, _)
Replace(s, old, new) ==
    IF s = <<>> THEN <<>>
    ELSE IF StartsWith(s, old) THEN new \o Replace(Drop(s, Len(old)), old, new)
    ELSE <<Head(s)>> \o Replace(Tail(s), old, new)

\* re.sub(r'[^\w\s-]', '', s)
RemoveSpecial(s) == SelectSeq(s, IsKeptChar)

RECURSIVE SkipSeps(_)
SkipSeps(s) ==
    IF s # <<>> /\ IsSepChar(Head(s)) THEN SkipSeps(Tail(s)) ELSE s

\* re.sub(r'[-\s]+', '_', s): each maximal run becomes one underscore
RECURSIVE CollapseSeps(_)
CollapseSeps(s) ==
    IF s = <<>> THEN <<>>
    ELSE IF IsSepChar(Head(s)) THEN <<"_">> \o CollapseSeps(SkipSeps(s))
    ELSE <<Head(s)>> \o CollapseSeps(Tail(s))

RECURSIVE LStrip(_, _)
LStrip(s, c) == IF s # <<>> /\ Head(s) = c THEN LStrip(Tail(s), c) ELSE s

RECURSIVE RStrip(_, _)
RStrip(s, c) ==
    IF s # <<>> /\ s[Len(s)] = c THEN RStrip(SubSeq(s, 1, Len(s) - 1), c) ELSE s

\* str.strip(c) for a one-character argument
Strip(s, c) == RStrip(LStrip(s, c), c)

(***************************************************************************)
(* normalize_part_id                                                       *)
(***************************************************************************)
\* Mutation: the underscores are stripped before the separators are replaced.
normalize_part_id_StripFirst(name) ==
    CollapseSeps(Strip(RemoveSpecial(lower(name)), "_"))

\* Mutation: a dot counts as a separator instead of being removed.
normalize_part_id_DotSep(name) ==
    Strip(CollapseSeps(RemoveSpecial(Replace(lower(name), <<".">>, <<"-">>))), "_")

normalize_part_id(name) ==
    LET lowered == lower(name)
        cleaned == RemoveSpecial(lowered)
        joined  == CollapseSeps(cleaned)
    IN  Strip(joined, "_")

(***************************************************************************)
(* determine_system                                                        *)
(***************************************************************************)
\* the keyword list of the SKELETAL branch
Kw_SKELETAL ==
    <<<<"s","k","e","l","e","t","o","n">>,
      <<"b","o","n","e">>,
      <<"s","k","u","l","l">>,
      <<"v","e","r","t","e","b","r","a">>,
      <<"r","i","b">>,
      <<"f","e","m","u","r">>>>
\* the keyword list of the MUSCULAR branch
Kw_MUSCULAR ==
    <<<<"m","u","s","c","l","e">>,
      <<"m","u","s","c","u","l","a","r">>>>
\* the keyword list of the NERVOUS branch
Kw_NERVOUS ==
    <<<<"n","e","r","v","e">>,
      <<"n","e","r","v","o","u","s">>,
      <<"b","r","a","i","n">>,
      <<"s","p","i","n","a","l">>>>
\* the keyword list of the CARDIOVASCULAR branch
Kw_CARDIOVASCULAR ==
    <<<<"h","e","a","r","t">>,
      <<"c","a","r","d","i","a","c">>,
      <<"a","r","t","e","r","y">>,
      <<"v","e","i","n">>,
      <<"b","l","o","o","d">>>>
\* the keyword list of the RESPIRATORY branch
Kw_RESPIRATORY ==
    <<<<"l","u","n","g">>,
      <<"r","e","s","p","i","r","a","t","o","r","y">>,
      <<"t","r","a","c","h","e","a">>,
      <<"b","r","o","n","c","h">>>>
\* the keyword list of the DIGESTIVE branch
Kw_DIGESTIVE ==
    <<<<"s","t","o","m","a","c","h">>,
      <<"i","n","t","e","s","t","i","n">>,
      <<"d","i","g","e","s","t","i","v","e">>,
      <<"l","i","v","e","r">>,
      <<"p","a","n","c","r","e","a">>>>
\* the keyword list of the URINARY branch
Kw_URINARY ==
    <<<<"k","i","d","n","e","y">>,
      <<"b","l","a","d","d","e","r">>,
      <<"u","r","i","n","a","r","y">>,
      <<"u","r","e","t","e","r">>>>
\* the keyword list of the LYMPHATIC branch
Kw_LYMPHATIC ==
    <<<<"l","y","m","p","h">>,
      <<"s","p","l","e","e","n">>,
      <<"t","h","y","m","u","s">>>>
\* the keyword list of the INTEGUMENTARY branch
Kw_INTEGUMENTARY ==
    <<<<"s","k","i","n">>,
      <<"i","n","t","e","g","u","m","e","n","t">>,
      <<"h","a","i","r">>>>

\* any(kw in name_lower for kw in kws)
AnyKeyword(kws, text) == \E i \in 1..Len(kws) : Contains(kws[i], text)

\* the if/elif chain of determine_system over an already lowercased text
SystemOfText(t) ==
    IF AnyKeyword(Kw_SKELETAL, t) THEN "SKELETAL"
    ELSE IF AnyKeyword(Kw_MUSCULAR, t) THEN "MUSCULAR"
    ELSE IF AnyKeyword(Kw_NERVOUS, t) THEN "NERVOUS"
    ELSE IF AnyKeyword(Kw_CARDIOVASCULAR, t) THEN "CARDIOVASCULAR"
    ELSE IF AnyKeyword(Kw_RESPIRATORY, t) THEN "RESPIRATORY"
    ELSE IF AnyKeyword(Kw_DIGESTIVE, t) THEN "DIGESTIVE"
    ELSE IF AnyKeyword(Kw_URINARY, t) THEN "URINARY"
    ELSE IF AnyKeyword(Kw_LYMPHATIC, t) THEN "LYMPHATIC"
    ELSE IF AnyKeyword(Kw_INTEGUMENTARY, t) THEN "INTEGUMENTARY"
    ELSE "SKELETAL"

\* f"{collection_name} {object_name}".lower()
name_lower(collection_name, object_name) ==
    lower(collection_name \o <<" ">> \o object_name)

\* Mutation: the MUSCULAR branch is tested before the SKELETAL branch.
determine_system_MuscularFirst(collection_name, object_name) ==
    LET t == name_lower(collection_name, object_name)
    IN  IF AnyKeyword(Kw_MUSCULAR, t) THEN "MUSCULAR" ELSE SystemOfText(t)

determine_system(collection_name, object_name) ==
    SystemOfText(name_lower(collection_name, object_name))

(***************************************************************************)
(* Names                                                                   *)
(***************************************************************************)
\* main_collections of extract_ontology, and the first column of systems in
\* main() of the exporter: the same five names in the same order
main_collections ==
    <<<<"1",":"," ","S","k","e","l","e","t","a","l"," ","s","y","s","t","e","m">>,
      <<"4",":"," ","M","u","s","c","u","l","a","r"," ","s","y","s","t","e","m">>,
      <<"5",":"," ","C","a","r","d","i","o","v","a","s","c","u","l","a","r"," ","s","y","s","t","e","m">>,
      <<"7",":"," ","N","e","r","v","o","u","s"," ","s","y","s","t","e","m"," ","&"," ","S","e","n","s","e"," ","o","r","g","a","n","s">>,
      <<"8",":"," ","V","i","s","c","e","r","a","l"," ","s","y","s","t","e","m","s">>>>

NumCollections == Len(main_collections)

\* systems of main() of the exporter: (collection_name, output_directory,
\* output_filename)
systems ==
    <<[collection_name |-> main_collections[1], output_dir |-> <<"s","k","e","l","e","t","o","n">>,
       filename |-> <<"s","k","e","l","e","t","o","n","-","f","u","l","l">>],
      [collection_name |-> main_collections[2], output_dir |-> <<"m","u","s","c","u","l","a","r">>,
       filename |-> <<"m","u","s","c","l","e","s","-","f","u","l","l">>],
      [collection_name |-> main_collections[3], output_dir |-> <<"c","a","r","d","i","o","v","a","s","c","u","l","a","r">>,
       filename |-> <<"c","a","r","d","i","o","v","a","s","c","u","l","a","r","-","f","u","l","l">>],
      [collection_name |-> main_collections[4], output_dir |-> <<"n","e","r","v","o","u","s">>,
       filename |-> <<"n","e","r","v","o","u","s","-","f","u","l","l">>],
      [collection_name |-> main_collections[5], output_dir |-> <<"r","e","s","p","i","r","a","t","o","r","y">>,
       filename |-> <<"v","i","s","c","e","r","a","l","-","f","u","l","l">>]>>

Heart == <<"H","e","a","r","t">>
LungL == <<"L","u","n","g",".","L">>
Skull == <<"S","k","u","l","l">>
LeftLung == <<"L","e","f","t"," ","l","u","n","g">>
RightLung == <<"R","i","g","h","t"," ","l","u","n","g">>
Camera == <<"C","a","m","e","r","a">>
FemurR == <<"F","e","m","u","r",".","R">>
PaddedLeftLung == <<" "," ","L","e","f","t","-","-","L","u","n","g"," "," ">>

\* Inputs of the normalisation check: every name of at most MaxNameLen
\* characters over NameAlphabet, and the names the documentation quotes.
MaxNameLen == 4
NameAlphabet == {"A", "b", "7", "_", "-", " ", "."}

RECURSIVE NamesOfLen(_)
NamesOfLen(n) ==
    IF n = 0 THEN {<<>>}
    ELSE {<<c>> \o s : c \in NameAlphabet, s \in NamesOfLen(n - 1)}

(***************************************************************************)
(* extract_ontology: helpers                                               *)
(***************************************************************************)
\* system_paths
system_paths ==
    [s \in {"SKELETAL", "MUSCULAR", "CARDIOVASCULAR", "NERVOUS", "RESPIRATORY",
            "DIGESTIVE"} |->
        CASE s = "SKELETAL" -> <<"s","k","e","l","e","t","o","n","/","s","k","e","l","e","t","o","n","-","f","u","l","l",".","g","l","b">>
          [] s = "MUSCULAR" -> <<"m","u","s","c","u","l","a","r","/","m","u","s","c","l","e","s","-","f","u","l","l",".","g","l","b">>
          [] s = "CARDIOVASCULAR" -> <<"c","a","r","d","i","o","v","a","s","c","u","l","a","r","/","c","a","r","d","i","o","v","a","s","c","u","l","a","r","-","f","u","l","l",".","g","l","b">>
          [] s = "NERVOUS" -> <<"n","e","r","v","o","u","s","/","n","e","r","v","o","u","s","-","f","u","l","l",".","g","l","b">>
          [] s = "RESPIRATORY" -> <<"r","e","s","p","i","r","a","t","o","r","y","/","v","i","s","c","e","r","a","l","-","f","u","l","l",".","g","l","b">>
          [] s = "DIGESTIVE" -> <<"r","e","s","p","i","r","a","t","o","r","y","/","v","i","s","c","e","r","a","l","-","f","u","l","l",".","g","l","b">>]

\* f"/models/{system_paths.get(system, 'skeleton/skeleton-full.glb')}"
ModelPath(sys) ==
    <<"/","m","o","d","e","l","s","/">> \o
        (IF sys \in DOMAIN system_paths THEN system_paths[sys]
         ELSE <<"s","k","e","l","e","t","o","n","/","s","k","e","l","e","t","o","n","-","f","u","l","l",".","g","l","b">>)

Synonym(text, priority) == [synonym |-> text, language |-> "en", priority |-> priority]

kwLeft == <<"l","e","f","t">>
kwRight == <<"r","i","g","h","t">>

\* Mutation: the ".l" / ".r" suffix triggers the variant as well.
Synonyms_SuffixTrigger(name) ==
    LET low == lower(name)
        base == <<Synonym(low, 10)>>
    IN  IF Contains(kwLeft, low) \/ Contains(<<".", "l">>, low)
        THEN Append(base, Synonym(Replace(Replace(low, kwLeft, <<"l">>), <<".", "l">>, <<>>), 8))
        ELSE IF Contains(kwRight, low) \/ Contains(<<".", "r">>, low)
        THEN Append(base, Synonym(Replace(Replace(low, kwRight, <<"r">>), <<".", "r">>, <<>>), 8))
        ELSE base

\* the synonyms list built for one object name
Synonyms(name) ==
    LET low == lower(name)
        base == <<Synonym(low, 10)>>
    IN  IF Contains(kwLeft, low)
        THEN Append(base, Synonym(Replace(Replace(low, kwLeft, <<"l">>), <<".", "l">>, <<>>), 8))
        ELSE IF Contains(kwRight, low)
        THEN Append(base, Synonym(Replace(Replace(low, kwRight, <<"r">>), <<".", "r">>, <<>>), 8))
        ELSE base

\* Mutation: the part id is the object name as it stands.
PartEntry_RawId(name, sys) ==
    [partId    |-> name,
     name      |-> name,
     system    |-> sys,
     modelPath |-> ModelPath(sys),
     meshName  |-> name,
     synonyms  |-> Synonyms(name)]

\* part_entry
PartEntry(name, sys) ==
    [partId    |-> normalize_part_id(name),
     name      |-> name,
     system    |-> sys,
     modelPath |-> ModelPath(sys),
     meshName  |-> name,
     synonyms  |-> Synonyms(name)]

\* Mutation: names are remembered per collection only.
AlreadyProcessed_PerCollection(name) ==
    \E i \in 1..Len(ontology) : origin[i] = ci /\ ontology[i].name = name

\* obj.name in processed_names
AlreadyProcessed(name) == name \in processed_names

\* Mutation: the new entry is put in front of the list.
ListAppend_Front(list, entry) == <<entry>> \o list

\* ontology.append(part_entry)
ListAppend(list, entry) == Append(list, entry)

\* the state of an output file: not opened by this run; opened for writing
\* (truncated, holding some incomplete prefix of the text); written and closed
Untouched == [status |-> "untouched", data |-> <<>>]
Partial == [status |-> "partial", data |-> <<>>]
Complete(records) == [status |-> "complete", data |-> records]

LogLine(kind, collection, info) == [kind |-> kind, collection |-> collection, info |-> info]

\* the progress line is printed every ProgressEvery recorded names
ProgressEvery == 100

\* systems[sys] = systems.get(sys, 0) + 1 over the ontology
SystemCounts(list) ==
    [sy \in {list[i].system : i \in 1..Len(list)} |->
        Cardinality({i \in 1..Len(list) : list[i].system = sy})]

\* no call of export_collection_to_glb has been made yet
NoCall == [made |-> FALSE]

(***************************************************************************)
(* The values of the variables a specification does not use                *)
(***************************************************************************)
EIdle ==
    /\ scene = <<>>
    /\ pc = "idle"
    /\ ci = 0
    /\ oi = 0
    /\ system = "none"
    /\ ontology = <<>>
    /\ origin = <<>>
    /\ processed_names = {}
    /\ log = <<>>
    /\ jsonFile = Untouched
    /\ tsFile = Untouched

XIdle ==
    /\ xscene = <<>>
    /\ xpc = "idle"
    /\ xphase = 0
    /\ xi = 0
    /\ applied = <<>>
    /\ selected = {}
    /\ files = {}
    /\ lastCall = NoCall
    /\ attempts = <<>>
    /\ xfaults = 0

NIdle ==
    /\ nName = <<>>
    /\ nOnce = <<>>
    /\ nTwice = <<>>
    /\ npc = "idle"

DIdle ==
    /\ dCollection = <<>>
    /\ dObject = <<>>
    /\ dResult = "none"
    /\ dpc = "idle"

(***************************************************************************)
(* extract_ontology: the scenes it is run on                               *)
(***************************************************************************)
\* An object of the scene: its display name and its type.
Obj(name, type) == [name |-> name, type |-> type]

\* The objects a scene is built from: three meshes and one object that is
\* no mesh.  The same object may be linked into several collections.
SceneObjects ==
    {Obj(Skull, "MESH"), Obj(LungL, "MESH"), Obj(LeftLung, "MESH"),
     Obj(Camera, "CAMERA")}

\* A scene links at most MaxLinks objects into the main collections.
MaxLinks == 3

\* collection.objects: the objects of one collection in the host's
\* enumeration order, no object twice
RECURSIVE Enumerations(_, _)
Enumerations(S, n) ==
    IF n = 0 THEN {<<>>}
    ELSE UNION {{<<o>> \o e : e \in Enumerations(S \ {o}, n - 1)} : o \in S}

Absent == [present |-> FALSE, objects |-> <<>>]
Present(objs) == [present |-> TRUE, objects |-> objs]

\* what bpy.data.collections may hold under one main collection name, by
\* the number of objects linked into it
CollectionChoices(n) ==
    {Present(e) : e \in Enumerations(SceneObjects, n)}
    \cup (IF n = 0 THEN {Absent} ELSE {})

\* how many objects each of k collections holds: at most budget in all
RECURSIVE LinkCounts(_, _)
LinkCounts(k, budget) ==
    IF k = 0 THEN {<<>>}
    ELSE UNION {{<<n>> \o rest : rest \in LinkCounts(k - 1, budget - n)}
                : n \in 0..budget}

\* the scenes whose collections hold the given numbers of objects
RECURSIVE ScenesWith(_)
ScenesWith(counts) ==
    IF counts = <<>> THEN {<<>>}
    ELSE LET firsts == CollectionChoices(Head(counts))
             rests == ScenesWith(Tail(counts))
         IN  {<<c>> \o rest : c \in firsts, rest \in rests}

(***************************************************************************)
(* extract_ontology: the run                                               *)
(***************************************************************************)
Banner == <<LogLine("banner", 0, "Extracting Z-Anatomy Ontology"),
            LogLine("banner", 0, "rule")>>

EInit ==
    /\ NIdle
    /\ DIdle
    /\ XIdle
    /\ \E counts \in LinkCounts(NumCollections, MaxLinks) :
          scene \in ScenesWith(counts)
    /\ pc = "collections"
    /\ ci = 1
    /\ oi = 0
    /\ system = "none"
    /\ ontology = <<>>
    /\ origin = <<>>
    /\ processed_names = {}
    /\ log = Banner
    /\ jsonFile = Untouched
    /\ tsFile = Untouched

\* Mutation: the skip of an absent collection prints a line.
MissingCollection_Logged ==
    /\ pc = "collections"
    /\ ci <= NumCollections
    /\ ~scene[ci].present
    /\ log' = Append(log, LogLine("skipped", ci, "not found"))
    /\ ci' = ci + 1
    /\ UNCHANGED <<scene, pc, oi, system, ontology, origin, processed_names,
                   jsonFile, tsFile, nvars, dvars, xvars>>

\* if collection_name not in bpy.data.collections: continue
MissingCollection ==
    /\ pc = "collections"
    /\ ci <= NumCollections
    /\ ~scene[ci].present
    /\ ci' = ci + 1
    /\ UNCHANGED <<scene, pc, oi, system, ontology, origin, processed_names, log,
                   jsonFile, tsFile, nvars, dvars, xvars>>

\* the collection exists: classify it and announce it
EnterCollection ==
    /\ pc = "collections"
    /\ ci <= NumCollections
    /\ scene[ci].present
    /\ system' = determine_system(main_collections[ci], <<>>)
    /\ log' = Append(log, LogLine("processing", ci, system'))
    /\ oi' = 1
    /\ pc' = "objects"
    /\ UNCHANGED <<scene, ci, ontology, origin, processed_names, jsonFile, tsFile,
                   nvars, dvars, xvars>>

CurrentObject == scene[ci].objects[oi]

AtObject == pc = "objects" /\ oi <= Len(scene[ci].objects)

\* if obj.type != 'MESH' or not obj.name: continue
SkipObject ==
    /\ AtObject
    /\ (CurrentObject.type # "MESH" \/ CurrentObject.name = <<>>)
    /\ oi' = oi + 1
    /\ UNCHANGED <<scene, pc, ci, system, ontology, origin, processed_names, log,
                   jsonFile, tsFile, nvars, dvars, xvars>>

\* if obj.name in processed_names: continue
SkipDuplicate ==
    /\ AtObject
    /\ ~(CurrentObject.type # "MESH" \/ CurrentObject.name = <<>>)
    /\ AlreadyProcessed(CurrentObject.name)
    /\ oi' = oi + 1
    /\ UNCHANGED <<scene, pc, ci, system, ontology, origin, processed_names, log,
                   jsonFile, tsFile, nvars, dvars, xvars>>

\* the rest of the loop body: record the name, build and append the entry
AddPart ==
    /\ AtObject
    /\ ~(CurrentObject.type # "MESH" \/ CurrentObject.name = <<>>)
    /\ ~AlreadyProcessed(CurrentObject.name)
    /\ processed_names' = processed_names \cup {CurrentObject.name}
    /\ ontology' = ListAppend(ontology, PartEntry(CurrentObject.name, system))
    /\ origin' = Append(origin, ci)
    /\ log' = IF Cardinality(processed_names') % ProgressEvery = 0
              THEN Append(log, LogLine("progress", 0, Cardinality(processed_names')))
              ELSE log
    /\ oi' = oi + 1
    /\ UNCHANGED <<scene, pc, ci, system, jsonFile, tsFile, nvars, dvars, xvars>>

\* collection.objects is exhausted: next collection_name
EndCollection ==
    /\ pc = "objects"
    /\ oi > Len(scene[ci].objects)
    /\ ci' = ci + 1
    /\ pc' = "collections"
    /\ UNCHANGED <<scene, oi, system, ontology, origin, processed_names, log,
                   jsonFile, tsFile, nvars, dvars, xvars>>

\* main_collections is exhausted
EndTraversal ==
    /\ pc = "collections"
    /\ ci > NumCollections
    /\ log' = Append(log, LogLine("extracted", 0, Len(ontology)))
    /\ pc' = "open_json"
    /\ UNCHANGED <<scene, ci, oi, system, ontology, origin, processed_names,
                   jsonFile, tsFile, nvars, dvars, xvars>>

\* Mutation: both output files are opened (truncated) before either is written.
OpenJson_BothFiles ==
    /\ pc = "open_json"
    /\ jsonFile' = Partial
    /\ tsFile' = Partial
    /\ pc' = "dump_json"
    /\ UNCHANGED <<scene, ci, oi, system, ontology, origin, processed_names, log,
                   nvars, dvars, xvars>>

\* open(output_path, 'w'): the file is created or truncated
OpenJson ==
    /\ pc = "open_json"
    /\ jsonFile' = Partial
    /\ pc' = "dump_json"
    /\ UNCHANGED <<scene, ci, oi, system, ontology, origin, processed_names, log,
                   tsFile, nvars, dvars, xvars>>

\* json.dump(ontology, f, indent=2), and the with block closes the file
DumpJson ==
    /\ pc = "dump_json"
    /\ jsonFile' = Complete(ontology)
    /\ log' = Append(log, LogLine("saved", 0, "json"))
    /\ pc' = "open_ts"
    /\ UNCHANGED <<scene, ci, oi, system, ontology, origin, processed_names,
                   tsFile, nvars, dvars, xvars>>

\* open(output_ts_path, 'w')
OpenTs ==
    /\ pc = "open_ts"
    /\ tsFile' = Partial
    /\ pc' = "write_ts"
    /\ UNCHANGED <<scene, ci, oi, system, ontology, origin, processed_names, log,
                   jsonFile, nvars, dvars, xvars>>

\* the six f.write calls (header, import, the array, ";"), and the close
WriteTs ==
    /\ pc = "write_ts"
    /\ tsFile' = Complete(ontology)
    /\ log' = Append(log, LogLine("saved", 0, "ts"))
    /\ pc' = "stats"
    /\ UNCHANGED <<scene, ci, oi, system, ontology, origin, processed_names,
                   jsonFile, nvars, dvars, xvars>>

\* the per-system statistics
PrintStats ==
    /\ pc = "stats"
    /\ log' = Append(log, LogLine("stats", 0, SystemCounts(ontology)))
    /\ pc' = "done"
    /\ UNCHANGED <<scene, ci, oi, system, ontology, origin, processed_names,
                   jsonFile, tsFile, nvars, dvars, xvars>>

\* an unhandled exception at the current statement ends the run; a file
\* that is open is closed by its with block as it is
Fault ==
    /\ pc \in {"collections", "objects", "open_json", "dump_json", "open_ts",
               "write_ts", "stats"}
    /\ pc' = "aborted"
    /\ UNCHANGED <<scene, ci, oi, system, ontology, origin, processed_names, log,
                   jsonFile, tsFile, nvars, dvars, xvars>>

ENext ==
    \/ MissingCollection
    \/ EnterCollection
    \/ SkipObject
    \/ SkipDuplicate
    \/ AddPart
    \/ EndCollection
    \/ EndTraversal
    \/ OpenJson
    \/ DumpJson
    \/ OpenTs
    \/ WriteTs
    \/ PrintStats
    \/ Fault

Spec == EInit /\ [][ENext]_vars

(***************************************************************************)
(* export_collection_to_glb                                                *)
(***************************************************************************)
\* OUTPUT_DIR, written relative to the directory the script is started in
OUTPUT_DIR == <<"p","u","b","l","i","c","/","m","o","d","e","l","s">>

\* decimate_ratio of the three loops of main(), in tenths; HIGH passes none
MediumRatio == 5
LowRatio == 2
NoRatio == [given |-> FALSE, tenths |-> 0]
Ratio(tenths) == [given |-> TRUE, tenths |-> tenths]
DecimateRatios == <<NoRatio, Ratio(MediumRatio), Ratio(LowRatio)>>
PathSuffixes == <<<<>>, <<"-","m","e","d">>, <<"-","l","o","w">>>>

\* f"{OUTPUT_DIR}/{output_dir}/{filename}<suffix>.glb"
OutputPath(output_dir, filename, suffix) ==
    OUTPUT_DIR \o <<"/">> \o output_dir \o <<"/">> \o filename \o suffix
        \o <<".","g","l","b">>

\* the names of the mesh objects of a collection, in enumeration order
MeshNames(objs) ==
    LET IsMeshObject(o) == o.type = "MESH"
        meshes == SelectSeq(objs, IsMeshObject)
    IN  [k \in 1..Len(meshes) |-> meshes[k].name]

\* if decimate_ratio and decimate_ratio < 1.0
Decimates(ratio) == ratio.given /\ ratio.tenths # 0 /\ ratio.tenths < 10

\* the statements of export_collection_to_glb at which the host may raise:
\* the first select_all, select_set on the k-th mesh, the decimation of the
\* k-th selected mesh, makedirs, the glTF export, getsize, the last select_all
NoFault == [step |-> "none", k |-> 0]
FaultPoints(coll, ratio) ==
    {NoFault, [step |-> "deselect", k |-> 0]}
    \cup (IF coll.present /\ Len(MeshNames(coll.objects)) > 0
          THEN {[step |-> st, k |-> 0] :
                    st \in {"makedirs", "export", "getsize", "deselect_end"}}
               \cup {[step |-> "select", k |-> k] :
                        k \in 1..Len(MeshNames(coll.objects))}
               \cup (IF Decimates(ratio)
                     THEN {[step |-> "decimate", k |-> k] :
                              k \in 1..Len(MeshNames(coll.objects))}
                     ELSE {})
          ELSE {})

\* the order of the statements, for "the fault comes before this one"
StepOrder ==
    [st \in {"deselect", "select", "decimate", "makedirs", "export", "getsize",
             "deselect_end", "none"} |->
        CASE st = "deselect" -> 1 [] st = "select" -> 2 [] st = "decimate" -> 3
          [] st = "makedirs" -> 4 [] st = "export" -> 5 [] st = "getsize" -> 6
          [] st = "deselect_end" -> 7 [] st = "none" -> 8]

Reaches(fault, st) == StepOrder[fault.step] > StepOrder[st]

\* the outcome of a call: the value returned (or the exception raised to the
\* caller), the line printed, and the host state it leaves
Outcome(returned, raised, printed, exported, sel, app, fs) ==
    [returned |-> returned, raised |-> raised, printed |-> printed,
     exported |-> exported, selected |-> sel, applied |-> app, files |-> fs]

\* the body of the try block, the host raising at fault (NoFault: nowhere);
\* caught says whether the except clause covers the first select_all
ExportBody(coll, output_path, ratio, fault, sel, app, fs, caught) ==
    LET names == MeshNames(coll.objects)
        n == Len(names)
        \* select_set(True) on the meshes before the fault
        nsel == IF fault.step = "select" THEN fault.k - 1 ELSE n
        sel1 == {names[k] : k \in 1..nsel}
        \* a Decimate modifier is added to and applied on the meshes before the fault
        ndec == IF ~Decimates(ratio) \/ ~Reaches(fault, "select") THEN 0
                ELSE IF fault.step = "decimate" THEN fault.k - 1 ELSE n
        app1 == [m \in DOMAIN app |->
                    IF \E k \in 1..ndec : names[k] = m
                    THEN Append(app[m], ratio.tenths) ELSE app[m]]
        glb == [path |-> output_path,
                meshes |-> {[name |-> m, applied |-> app1[m]] : m \in sel1}]
        fs1 == IF Reaches(fault, "export") THEN fs \cup {glb} ELSE fs
    IN  IF fault.step = "deselect"
        THEN Outcome(FALSE, ~caught, IF caught THEN "error" ELSE "traceback",
                     FALSE, sel, app, fs)
        ELSE IF ~coll.present
        THEN Outcome(FALSE, FALSE, "not found", FALSE, {}, app, fs)
        ELSE IF n = 0
        THEN Outcome(FALSE, FALSE, "skipping", FALSE, {}, app, fs)
        ELSE IF fault.step # "none"
        THEN Outcome(FALSE, FALSE, "error", Reaches(fault, "export"), sel1, app1, fs1)
        ELSE Outcome(TRUE, FALSE, "exported", TRUE, {}, app1, fs1)

\* Mutation: the first select_all stands before the try block.
export_collection_to_glb_DeselectOutsideTry(coll, output_path, ratio, fault, sel, app, fs) ==
    ExportBody(coll, output_path, ratio, fault, sel, app, fs, FALSE)

\* export_collection_to_glb(collection_name, output_path, decimate_ratio) on
\* the host state (sel, app, fs), coll being what bpy.data.collections holds
\* under collection_name
export_collection_to_glb(coll, output_path, ratio, fault, sel, app, fs) ==
    ExportBody(coll, output_path, ratio, fault, sel, app, fs, TRUE)

(***************************************************************************)
(* main() of the exporter                                                  *)
(***************************************************************************)
\* specific_parts
specific_parts ==
    <<[obj_name |-> LeftLung, output_dir |-> <<"r","e","s","p","i","r","a","t","o","r","y">>, filename |-> <<"l","u","n","g","-","l","e","f","t">>],
      [obj_name |-> RightLung, output_dir |-> <<"r","e","s","p","i","r","a","t","o","r","y">>, filename |-> <<"l","u","n","g","-","r","i","g","h","t">>]>>

\* The host raises at most MaxFaults times in one run.
MaxFaults == 1

\* A scene of the exporter links at most MaxExportLinks objects.
MaxExportLinks == 2

\* The objects a scene of the exporter is built from: a mesh, a mesh that
\* specific_parts names, and an object that is no mesh.
ExportObjects == {Obj(Skull, "MESH"), Obj(LeftLung, "MESH"), Obj(Camera, "CAMERA")}

\* what bpy.data.collections may hold under one main collection name: nothing,
\* or a collection with n objects linked into it (a collection without a mesh
\* is one that holds the object that is no mesh)
ExportChoices(n) ==
    IF n = 0 THEN {Absent}
    ELSE {Present(e) : e \in Enumerations(ExportObjects, n)}

RECURSIVE ExportScenesWith(_)
ExportScenesWith(counts) ==
    IF counts = <<>> THEN {<<>>}
    ELSE LET firsts == ExportChoices(Head(counts))
             rests == ExportScenesWith(Tail(counts))
         IN  {<<c>> \o rest : c \in firsts, rest \in rests}

\* bpy.data.objects: the objects linked into the main collections
DataObjects == UNION {Range(xscene[c].objects) : c \in 1..NumCollections}

XInit ==
    /\ EIdle
    /\ NIdle
    /\ DIdle
    /\ \E counts \in LinkCounts(NumCollections, MaxExportLinks) :
          xscene \in ExportScenesWith(counts)
    /\ xpc = "collections"
    /\ xphase = 1
    /\ xi = 1
    /\ applied = [m \in {o.name : o \in {x \in SceneObjects : x.type = "MESH"}} |-> <<>>]
    /\ selected = {}
    /\ files = {}
    /\ lastCall = NoCall
    /\ attempts = <<>>
    /\ xfaults = 0

\* Mutation: the scene's geometry is restored after each call.
ExportCollection_SceneRestored ==
    /\ xpc = "collections"
    /\ xphase \in 1..3
    /\ \E fault \in FaultPoints(xscene[xi], DecimateRatios[xphase]) :
          LET path == OutputPath(systems[xi].output_dir, systems[xi].filename,
                                 PathSuffixes[xphase])
              out == export_collection_to_glb(xscene[xi], path,
                         DecimateRatios[xphase], fault, selected, applied, files)
          IN  /\ fault # NoFault => xfaults < MaxFaults
              /\ xfaults' = IF fault = NoFault THEN xfaults ELSE xfaults + 1
              /\ selected' = out.selected
              /\ applied' = applied
              /\ files' = out.files
              /\ lastCall' = [made |-> TRUE, collection |-> xi, phase |-> xphase,
                              path |-> path, fault |-> fault,
                              returned |-> out.returned, raised |-> out.raised,
                              printed |-> out.printed, exported |-> out.exported]
              /\ attempts' = Append(attempts, <<xi, xphase>>)
              /\ IF out.raised
                 THEN xpc' = "crashed" /\ UNCHANGED <<xphase, xi>>
                 ELSE /\ xpc' = IF xphase = 3 /\ xi = NumCollections
                                THEN "specific" ELSE "collections"
                      /\ xi' = IF xi = NumCollections THEN 1 ELSE xi + 1
                      /\ xphase' = IF xi = NumCollections THEN xphase + 1 ELSE xphase
    /\ UNCHANGED <<xscene, evars, nvars, dvars>>

\* one iteration of one of the three "for collection_name, output_dir,
\* filename in systems" loops: the call of export_collection_to_glb
ExportCollection ==
    /\ xpc = "collections"
    /\ xphase \in 1..3
    /\ \E fault \in FaultPoints(xscene[xi], DecimateRatios[xphase]) :
          LET path == OutputPath(systems[xi].output_dir, systems[xi].filename,
                                 PathSuffixes[xphase])
              out == export_collection_to_glb(xscene[xi], path,
                         DecimateRatios[xphase], fault, selected, applied, files)
          IN  /\ fault # NoFault => xfaults < MaxFaults
              /\ xfaults' = IF fault = NoFault THEN xfaults ELSE xfaults + 1
              /\ selected' = out.selected
              /\ applied' = out.applied
              /\ files' = out.files
              /\ lastCall' = [made |-> TRUE, collection |-> xi, phase |-> xphase,
                              path |-> path, fault |-> fault,
                              returned |-> out.returned, raised |-> out.raised,
                              printed |-> out.printed, exported |-> out.exported]
              /\ attempts' = Append(attempts, <<xi, xphase>>)
              /\ IF out.raised
                 THEN xpc' = "crashed" /\ UNCHANGED <<xphase, xi>>
                 ELSE /\ xpc' = IF xphase = 3 /\ xi = NumCollections
                                THEN "specific" ELSE "collections"
                      /\ xi' = IF xi = NumCollections THEN 1 ELSE xi + 1
                      /\ xphase' = IF xi = NumCollections THEN xphase + 1 ELSE xphase
    /\ UNCHANGED <<xscene, evars, nvars, dvars>>

SpecificObject == specific_parts[xi]

AtSpecific == xpc = "specific" /\ xphase = 4 /\ xi <= Len(specific_parts)

SpecificIsMesh ==
    \E o \in DataObjects : o.name = SpecificObject.obj_name /\ o.type = "MESH"

\* an iteration of the specific_parts loop that exports nothing: the object
\* is not in bpy.data.objects, or is no mesh
SpecificSkip ==
    /\ AtSpecific
    /\ ~SpecificIsMesh
    /\ selected' = {}
    /\ xi' = xi + 1
    /\ UNCHANGED <<xscene, xpc, xphase, applied, files, lastCall, attempts, xfaults,
                   evars, nvars, dvars>>

\* an iteration of the specific_parts loop that exports the object; the
\* selection is left as it is
SpecificExport ==
    /\ AtSpecific
    /\ SpecificIsMesh
    /\ selected' = {SpecificObject.obj_name}
    /\ files' = files \cup
          {[path |-> OutputPath(SpecificObject.output_dir, SpecificObject.filename, <<>>),
            meshes |-> {[name |-> SpecificObject.obj_name,
                         applied |-> applied[SpecificObject.obj_name]]}]}
    /\ xi' = xi + 1
    /\ UNCHANGED <<xscene, xpc, xphase, applied, lastCall, attempts, xfaults,
                   evars, nvars, dvars>>

\* the host raises in the specific_parts loop, which has no try block: the
\* exception ends main()
SpecificFault ==
    /\ AtSpecific
    /\ xfaults < MaxFaults
    /\ xfaults' = xfaults + 1
    /\ xpc' = "crashed"
    /\ UNCHANGED <<xscene, xphase, xi, applied, selected, files, lastCall, attempts,
                   evars, nvars, dvars>>

\* specific_parts is exhausted: the closing lines are printed
ExportComplete ==
    /\ xpc = "specific"
    /\ xi > Len(specific_parts)
    /\ xpc' = "done"
    /\ UNCHANGED <<xscene, xphase, xi, applied, selected, files, lastCall, attempts,
                   xfaults, evars, nvars, dvars>>

XNext ==
    \/ ExportCollection
    \/ SpecificSkip
    \/ SpecificExport
    \/ SpecificFault
    \/ ExportComplete

SpecExport == XInit /\ [][XNext]_vars

(***************************************************************************)
(* Claims about extract_ontology (checked under Spec)                      *)
(***************************************************************************)
IsMesh(o) == o.type = "MESH" /\ o.name # <<>>

\* the main collections of the scene that hold a mesh of this name
CollectionsWith(name) ==
    {c \in 1..NumCollections :
        /\ scene[c].present
        /\ \E k \in 1..Len(scene[c].objects) :
              IsMesh(scene[c].objects[k]) /\ scene[c].objects[k].name = name}

FirstCollectionWith(name) ==
    CHOOSE c \in CollectionsWith(name) : \A d \in CollectionsWith(name) : c <= d

TraversalOver == ci > NumCollections

\* the system extract_ontology gives each main collection
CollectionSystem ==
    [c \in 1..NumCollections |-> determine_system(main_collections[c], <<>>)]

\* C1: names are deduplicated across all collections: at most one record
\* per display name, and the record of a name is the one made while the
\* first collection holding it was processed (its system and modelPath are
\* those of that collection); once the traversal is over every mesh name of
\* the scene has its record.
C1_GlobalDedup ==
    /\ \A i, j \in 1..Len(ontology) :
          ontology[i].name = ontology[j].name => i = j
    /\ \A i \in 1..Len(ontology) :
          LET first == FirstCollectionWith(ontology[i].name)
              sys == CollectionSystem[first]
          IN  /\ CollectionsWith(ontology[i].name) # {}
              /\ origin[i] = first
              /\ ontology[i].system = sys
              /\ ontology[i].modelPath = ModelPath(sys)
    /\ TraversalOver =>
          \A c \in 1..NumCollections : \A k \in 1..Len(scene[c].objects) :
              (scene[c].present /\ IsMesh(scene[c].objects[k])) =>
                  \E i \in 1..Len(ontology) :
                      ontology[i].name = scene[c].objects[k].name

\* C1 witness: a mesh name linked into two collections whose systems differ
\* has been recorded, once, from the first of them, and the run is done.
C1_Witness ==
    /\ pc = "done"
    /\ \E i \in 1..Len(ontology) : \E c, d \in CollectionsWith(ontology[i].name) :
          /\ c < d
          /\ origin[i] = c
          /\ CollectionSystem[c] # CollectionSystem[d]

\* the path under which main() of the exporter writes main collection c,
\* relative to the served root: "/models/<dir>/<file>.glb"
ExportedModelPath(c) ==
    <<"/","m","o","d","e","l","s","/">> \o systems[c].output_dir \o <<"/">>
        \o systems[c].filename \o <<".","g","l","b">>

\* C2: the modelPath of every record is the path of the file the exporter
\* writes for the collection the record was taken from.
C2_ModelPathIsExportedFile ==
    \A i \in 1..Len(ontology) :
        /\ systems[origin[i]].collection_name = main_collections[origin[i]]
        /\ ontology[i].modelPath = ExportedModelPath(origin[i])

\* the place of the mesh called name in the enumeration of collection c
PlaceIn(c, name) ==
    CHOOSE k \in 1..Len(scene[c].objects) :
        IsMesh(scene[c].objects[k]) /\ scene[c].objects[k].name = name

IsPrefix(s, t) == Len(s) <= Len(t) /\ SubSeq(t, 1, Len(s)) = s

C3_Ordered ==
    \A i, j \in 1..Len(ontology) :
        i < j =>
            /\ origin[i] <= origin[j]
            /\ origin[i] = origin[j] =>
                  PlaceIn(origin[i], ontology[i].name)
                      < PlaceIn(origin[j], ontology[j].name)

\* C3: the records are in traversal order: collections are visited in the
\* order of main_collections, records of an earlier collection precede those
\* of a later one, records of one collection are in its enumeration order,
\* and a step never reorders or removes a record: it leaves the list alone
\* or adds one record at its end.
C3_TraversalOrder ==
    /\ []C3_Ordered
    /\ [][/\ ci' \in {ci, ci + 1}
          /\ IsPrefix(ontology, ontology')
          /\ Len(ontology') <= Len(ontology) + 1]_vars

\* C3 witness: two records of one collection are followed by a record of a
\* later collection, with an absent collection in between.
C3_Witness ==
    /\ pc = "done"
    /\ Len(ontology) = 3
    /\ origin[1] = origin[2]
    /\ origin[2] + 1 < origin[3]
    /\ PlaceIn(origin[1], ontology[1].name) < PlaceIn(origin[2], ontology[2].name)

RecordsOf(name) == {i \in 1..Len(ontology) : ontology[i].name = name}

\* C7 as stated: the record of "Lung.L" has exactly two synonyms, "lung.l"
\* at priority 10 followed by a variant at priority 8.
C7_Original ==
    \A i \in RecordsOf(LungL) :
        /\ Len(ontology[i].synonyms) = 2
        /\ ontology[i].synonyms[1] = Synonym(lower(LungL), 10)
        /\ ontology[i].synonyms[2].priority = 8

\* C7 amended: the record of "Lung.L" has exactly one synonym, "lung.l" in
\* language "en" at priority 10: the lowercased name holds neither "left"
\* nor "right", so no priority-8 variant is added.
C7_LungLOneSynonym ==
    \A i \in RecordsOf(LungL) :
        ontology[i].synonyms =
            <<[synonym |-> <<"l","u","n","g",".","l">>, language |-> "en",
               priority |-> 10]>>

\* C7 witness: "Lung.L" has been recorded.
C7_Witness == pc = "done" /\ RecordsOf(LungL) # {}

\* the collections the for loop has already passed
Passed == {c \in 1..NumCollections : c < ci}

LoggedAbout(c) == \E k \in 1..Len(log) : log[k].collection = c

\* what C8 says apart from the logging: a passed collection that is present
\* was processed whatever was absent before it, the records are those of
\* the present collections, and a run that ends has written both files
C8_SkipIsNotFatal ==
    /\ \A c \in Passed :
          scene[c].present =>
              \E k \in 1..Len(log) :
                  log[k].kind = "processing" /\ log[k].collection = c
    /\ \A i \in 1..Len(ontology) : scene[origin[i]].present
    /\ TraversalOver =>
          {ontology[i].name : i \in 1..Len(ontology)}
              = UNION {{o.name : o \in {x \in Range(scene[c].objects) : IsMesh(x)}}
                       : c \in {d \in 1..NumCollections : scene[d].present}}
    /\ pc = "done" =>
          jsonFile = Complete(ontology) /\ tsFile = Complete(ontology)

\* C8 as stated: an absent collection is skipped without aborting the run,
\* and the skip is logged.
C8_Original ==
    /\ C8_SkipIsNotFatal
    /\ \A c \in Passed : ~scene[c].present => LoggedAbout(c)

\* C8 amended: an absent collection is skipped without aborting the run and
\* without any line being printed about it; the later collections are still
\* processed, the records are exactly those of the present collections, and
\* both files are written by a run that ends.
C8_SilentSkip ==
    /\ C8_SkipIsNotFatal
    /\ \A c \in 1..NumCollections : ~scene[c].present => ~LoggedAbout(c)

\* C8 witness: the run is done, an absent collection came before a present
\* one, and a record was taken from the later one.
C8_Witness ==
    /\ pc = "done"
    /\ \E c, d \in 1..NumCollections :
          /\ c < d
          /\ ~scene[c].present
          /\ \E i \in 1..Len(ontology) : origin[i] = d

\* C9 as stated: in every state either neither file has been written or both
\* hold the complete, identical record array.
C9_Original ==
    \/ jsonFile.status = "untouched" /\ tsFile.status = "untouched"
    \/ jsonFile = Complete(ontology) /\ tsFile = Complete(ontology)

\* C9 amended: the files are written one after the other once the traversal
\* is over: no file is touched before the last collection has been handled,
\* the TS file is touched only when the JSON file holds the complete array,
\* a written file holds exactly the record list, and a run that ends
\* leaves both files complete and identical.  (Between and during the two
\* writes, and after a fault there, one file alone or a partial file exists.)
C9_WrittenAtEnd ==
    /\ jsonFile.status # "untouched" => TraversalOver
    /\ tsFile.status # "untouched" => jsonFile = Complete(ontology)
    /\ jsonFile.status = "complete" => jsonFile.data = ontology
    /\ tsFile.status = "complete" => tsFile.data = ontology
    /\ pc = "done" =>
          jsonFile = Complete(ontology) /\ tsFile = Complete(ontology)

\* C9 witness: the run was aborted by a fault after the JSON file was
\* written and while the TS file was open: one complete and one partial file.
C9_Witness ==
    /\ pc = "aborted"
    /\ jsonFile.status = "complete"
    /\ tsFile.status = "partial"
    /\ Len(ontology) > 0

\* the scene whose only collection is "1: Skeletal system", holding the one
\* mesh object "Skull"
SkullScene == <<Present(<<Obj(Skull, "MESH")>>), Absent, Absent, Absent, Absent>>

\* C11: for the scene whose only collection is "1: Skeletal system" with the
\* one mesh object "Skull", extract_ontology produces exactly one record:
\* partId "skull", name and meshName "Skull", system "SKELETAL", modelPath
\* "/models/skeleton/skeleton-full.glb"; a run that ends has written that one
\* record to both files.
C11_SkullEndToEnd ==
    scene = SkullScene =>
        /\ Len(ontology) <= 1
        /\ TraversalOver => Len(ontology) = 1
        /\ \A i \in 1..Len(ontology) :
              /\ ontology[i].partId = <<"s","k","u","l","l">>
              /\ ontology[i].name = <<"S","k","u","l","l">>
              /\ ontology[i].meshName = <<"S","k","u","l","l">>
              /\ ontology[i].system = "SKELETAL"
              /\ ontology[i].modelPath = <<"/","m","o","d","e","l","s","/","s","k","e","l","e","t","o","n","/","s","k","e","l","e","t","o","n","-","f","u","l","l",".","g","l","b">>
        /\ pc = "done" =>
              /\ jsonFile.status = "complete" /\ jsonFile.data = ontology
              /\ tsFile.status = "complete" /\ tsFile.data = ontology

\* C11 witness: the run over that scene has ended, its one record written.
C11_Witness ==
    /\ scene = SkullScene
    /\ pc = "done"
    /\ Len(ontology) = 1
    /\ ontology[1].name = Skull
    /\ jsonFile.status = "complete"

(***************************************************************************)
(* Specification SpecNormalize: normalize_part_id(normalize_part_id(name)) *)
(***************************************************************************)
NInit ==
    /\ DIdle
    /\ EIdle
    /\ XIdle
    /\ nName \in UNION {NamesOfLen(n) : n \in 0..MaxNameLen}
                    \cup {FemurR, PaddedLeftLung}
    /\ nOnce = <<>>
    /\ nTwice = <<>>
    /\ npc = "start"

NormalizeOnce ==
    /\ npc = "start"
    /\ nOnce' = normalize_part_id(nName)
    /\ npc' = "once"
    /\ UNCHANGED <<nName, nTwice, dvars, evars, xvars>>

NormalizeTwice ==
    /\ npc = "once"
    /\ nTwice' = normalize_part_id(nOnce)
    /\ npc' = "twice"
    /\ UNCHANGED <<nName, nOnce, dvars, evars, xvars>>

NNext == NormalizeOnce \/ NormalizeTwice

SpecNormalize == NInit /\ [][NNext]_vars

(***************************************************************************)
(* Specification SpecDetermine: determine_system on one pair of names      *)
(***************************************************************************)
\* Object names of the classification check: at most MaxWords words, each a
\* keyword of some branch or a word that holds no keyword, joined by spaces.
MaxWords == 2

AllKeywords ==
    Range(Kw_SKELETAL) \cup Range(Kw_MUSCULAR) \cup Range(Kw_NERVOUS)
    \cup Range(Kw_CARDIOVASCULAR) \cup Range(Kw_RESPIRATORY)
    \cup Range(Kw_DIGESTIVE) \cup Range(Kw_URINARY) \cup Range(Kw_LYMPHATIC)
    \cup Range(Kw_INTEGUMENTARY)

Vocabulary == AllKeywords \cup {Camera}

RECURSIVE Phrases(_)
Phrases(n) ==
    IF n = 0 THEN {<<>>}
    ELSE IF n = 1 THEN Vocabulary
    ELSE {w \o <<" ">> \o p : w \in Vocabulary, p \in Phrases(n - 1)}

\* Collection names of the classification check: none, one that holds a
\* keyword ("muscular") and one that holds none.
DetermineCollections == {<<>>, main_collections[2], main_collections[3]}

DInit ==
    /\ NIdle
    /\ EIdle
    /\ XIdle
    /\ dCollection \in DetermineCollections
    /\ dObject \in UNION {Phrases(n) : n \in 0..MaxWords}
    /\ dResult = "none"
    /\ dpc = "start"

Determine ==
    /\ dpc = "start"
    /\ dResult' = determine_system(dCollection, dObject)
    /\ dpc' = "done"
    /\ UNCHANGED <<dCollection, dObject, nvars, evars, xvars>>

DNext == Determine

SpecDetermine == DInit /\ [][DNext]_vars

(***************************************************************************)
(* Claims about determine_system (checked under SpecDetermine)             *)
(***************************************************************************)
\* The ordered checklist of the documentation: (system, keywords) pairs.
Checklist ==
    <<[system |-> "SKELETAL",       keywords |-> Kw_SKELETAL],
      [system |-> "MUSCULAR",       keywords |-> Kw_MUSCULAR],
      [system |-> "NERVOUS",        keywords |-> Kw_NERVOUS],
      [system |-> "CARDIOVASCULAR", keywords |-> Kw_CARDIOVASCULAR],
      [system |-> "RESPIRATORY",    keywords |-> Kw_RESPIRATORY],
      [system |-> "DIGESTIVE",      keywords |-> Kw_DIGESTIVE],
      [system |-> "URINARY",        keywords |-> Kw_URINARY],
      [system |-> "LYMPHATIC",      keywords |-> Kw_LYMPHATIC],
      [system |-> "INTEGUMENTARY",  keywords |-> Kw_INTEGUMENTARY]>>

EntryMatches(i, text) ==
    \E k \in Range(Checklist[i].keywords) : Contains(k, text)

dText == lower(dCollection \o <<" ">> \o dObject)

\* C4: determine_system returns the system of the first checklist entry one
\* of whose keywords occurs in the lowercased "<collection> <object>" text,
\* SKELETAL when no entry matches, and SKELETAL for a text holding both
\* "muscle" and "bone".
C4_FirstMatch ==
    dpc = "done" =>
        LET text == dText
            matching == {i \in 1..Len(Checklist) : EntryMatches(i, text)}
            first == CHOOSE i \in matching : \A j \in matching : i <= j
        IN  /\ matching # {} => dResult = Checklist[first].system
            /\ matching = {} => dResult = "SKELETAL"
            /\ (Contains(<<"m","u","s","c","l","e">>, text)
                    /\ Contains(<<"b","o","n","e">>, text))
                  => dResult = "SKELETAL"

\* C4 witness: a text holding "muscle" before "bone" has been classified.
C4_Witness ==
    /\ dpc = "done"
    /\ dObject = <<"m","u","s","c","l","e"," ","b","o","n","e">>
    /\ dCollection = <<>>
    /\ dResult = "SKELETAL"

(***************************************************************************)
(* Claims about normalize_part_id (checked under SpecNormalize)            *)
(***************************************************************************)
\* C5: normalize_part_id is idempotent: applying it to its own result gives
\* that result again, for every name (names with underscores, runs of
\* hyphens/whitespace next to removed characters, names normalising to "").
C5_Idempotent == npc = "twice" => nTwice = nOnce

\* C5 witness: a name holding an underscore and a removed character directly
\* followed by a hyphen has been normalised twice, and normalising changed it.
C5_Witness ==
    /\ npc = "twice"
    /\ "_" \in Range(nName)
    /\ \E i \in 1..(Len(nName) - 1) : nName[i] = "." /\ nName[i + 1] = "-"
    /\ nOnce # nName
    /\ nOnce # <<>>

\* C6 as stated: normalize_part_id("Femur.R") returns "femur_r".
C6_Original ==
    (npc # "start" /\ nName = FemurR) => nOnce = <<"f","e","m","u","r","_","r">>

\* C6 amended: normalize_part_id("Femur.R") returns "femurr": the dot is
\* removed by step 2 and nothing is left for step 3 to turn into "_".
C6_FemurR == (npc # "start" /\ nName = FemurR) => nOnce = <<"f","e","m","u","r","r">>

\* C6 witness: "Femur.R" has been normalised.
C6_Witness == npc = "once" /\ nName = FemurR /\ Len(nOnce) = 6


(***************************************************************************)
(* Claims about export_collection_to_glb and the loops of main()           *)
(***************************************************************************)
HasMesh(coll) == coll.present /\ Len(MeshNames(coll.objects)) > 0

\* the calls main() makes, in order: the five systems at HIGH, at MEDIUM, at LOW
ExpectedAttempts ==
    [j \in 1..(3 * NumCollections) |->
        <<((j - 1) % NumCollections) + 1, ((j - 1) \div NumCollections) + 1>>]

FilePaths == {f.path : f \in files}

\* C10: export_collection_to_glb never raises to its caller; it returns False
\* when the collection is missing, holds no mesh, or a step of it faults, and
\* True only once the glTF export has completed (the file is there); so main()
\* is never ended inside its three quality loops, and calls the function for
\* every collection at every quality level, in order, whatever failed before.
C10_NeverRaises ==
    /\ lastCall.made =>
          /\ ~lastCall.raised
          /\ (~HasMesh(xscene[lastCall.collection]) \/ lastCall.fault # NoFault)
                => lastCall.returned = FALSE
          /\ lastCall.returned = TRUE =>
                lastCall.exported /\ lastCall.path \in FilePaths
    /\ xpc = "crashed" => xphase = 4
    /\ Len(attempts) = IF xphase <= 3 THEN NumCollections * (xphase - 1) + xi - 1
                       ELSE 3 * NumCollections
    /\ \A j \in 1..Len(attempts) : attempts[j] = ExpectedAttempts[j]

\* C10 witness: main() ran to its end although a call for a collection with
\* meshes faulted at HIGH quality (its file is missing); the same collection
\* was exported at MEDIUM quality afterwards, and the last call returned True.
C10_Witness ==
    /\ xpc = "done"
    /\ xfaults > 0
    /\ Len(attempts) = 3 * NumCollections
    /\ lastCall.made /\ lastCall.returned = TRUE
    /\ \E c \in 1..NumCollections :
          /\ HasMesh(xscene[c])
          /\ OutputPath(systems[c].output_dir, systems[c].filename, PathSuffixes[1])
                \notin FilePaths
          /\ OutputPath(systems[c].output_dir, systems[c].filename, PathSuffixes[2])
                \in FilePaths


(***************************************************************************)
(* Claims about decimation over the three quality loops                    *)
(***************************************************************************)
\* the main collections a mesh is linked into
CollectionsOf(m) ==
    {c \in 1..NumCollections :
        xscene[c].present /\ \E k \in 1..Len(xscene[c].objects) :
            xscene[c].objects[k] = Obj(m, "MESH")}

\* the file main() writes for system c at quality q (1 HIGH, 2 MEDIUM, 3 LOW)
SystemPath(c, q) ==
    OutputPath(systems[c].output_dir, systems[c].filename, PathSuffixes[q])

ExportOf(c, q) == {f \in files : f.path = SystemPath(c, q)}

SpecificPath(p) ==
    OutputPath(specific_parts[p].output_dir, specific_parts[p].filename, <<>>)

RECURSIVE Product(_)
Product(seq) == IF seq = <<>> THEN 1 ELSE Head(seq) * Product(Tail(seq))

RECURSIVE Power(_, _)
Power(b, n) == IF n = 0 THEN 1 ELSE b * Power(b, n - 1)

\* the decimations in history (ratios in tenths) leave num/den of the original
Cumulative(history, num, den) ==
    Product(history) * den = num * Power(10, Len(history))

\* history is j decimations at the MEDIUM ratio, for some j in 1..n
MediumTimes(history, n) ==
    /\ Len(history) \in 1..n
    /\ \A i \in 1..Len(history) : history[i] = MediumRatio

\* the MEDIUM pass decimated mesh m
MediumDecimated(m) == \E i \in 1..Len(applied[m]) : applied[m][i] = MediumRatio

=============================================================================
